---- MODULE Spec2Model ----
(***************************************************************************)
(* Model of filtering/filtering.py: apply_filter(image, kernel), a 2D      *)
(* zero-padded sliding-window filter over a grayscale (rank 2) or          *)
(* multi-channel (rank 3) NumPy array.                                     *)
(*                                                                         *)
(* One call of apply_filter is a state machine: the program counter pc     *)
(* walks the statements of the function, the local names of the function   *)
(* are references into a heap of arrays, and every array carries its       *)
(* shape, its element type and its samples.                                *)
(*                                                                         *)
(* Numbers.  Integer arrays hold integers.  Floating-point arrays hold     *)
(* fixed-point numerators in units of 1/Den.  With Den a power of two and  *)
(* the magnitudes reached here, every float64 product and sum and every    *)
(* float32 store of the function is exact, so the fixed-point value is the *)
(* value NumPy holds.                                                      *)
(***************************************************************************)
EXTENDS Integers, Sequences, FiniteSets, TLC

\* ------------------------------------------------------------------ bounds
MaxDim == 2        \* largest image height and width enumerated
MaxCh == 2         \* largest channel count enumerated
MaxK == 3          \* largest kernel side enumerated
Den == 2           \* fixed-point denominator of floating-point values

\* non-zero image samples enumerated (uint8)
Samples == {101}
\* non-zero float64 kernel weights enumerated, as numerators over Den:
\* -1, 1 and 1 + 1/Den
FloatWeights == {0 - Den, Den, Den + 1}
\* non-zero uint8 kernel weights enumerated
IntWeights == {1, 3}

NULL == 0

\* ---------------------------------------------------------------- helpers
Min(a, b) == IF a < b THEN a ELSE b
Max(a, b) == IF a > b THEN a ELSE b
Abs(a) == IF a < 0 THEN 0 - a ELSE a

RECURSIVE Pow2(_)
Pow2(n) == IF n = 0 THEN 1 ELSE 2 * Pow2(n - 1)

RECURSIVE SumOver(_, _)
SumOver(f, S) ==
  IF S = {} THEN 0
  ELSE LET e == CHOOSE e \in S : TRUE IN f[e] + SumOver(f, S \ {e})

\* ----------------------------------------------------------------- arrays
\* index tuples of an array of the given shape (ranks 0..4)
Indices(shape) ==
  CASE Len(shape) = 0 -> {<<>>}
    [] Len(shape) = 1 -> {<<a>> : a \in 0..(shape[1] - 1)}
    [] Len(shape) = 2 -> {<<a, b>> : a \in 0..(shape[1] - 1), b \in 0..(shape[2] - 1)}
    [] Len(shape) = 3 -> {<<a, b, c>> : a \in 0..(shape[1] - 1), b \in 0..(shape[2] - 1),
                                        c \in 0..(shape[3] - 1)}
    [] OTHER -> {<<a, b, c, d>> : a \in 0..(shape[1] - 1), b \in 0..(shape[2] - 1),
                                  c \in 0..(shape[3] - 1), d \in 0..(shape[4] - 1)}

Array(shape, dtype, data) == [shape |-> shape, dtype |-> dtype, data |-> data]
Ndim(a) == Len(a.shape)
IsFloat(dtype) == dtype \in {"float64", "float32"}

\* value v of element type dtype as a fixed-point numerator over Den
Fix(dtype, v) == IF IsFloat(dtype) THEN v ELSE v * Den

ZeroArray(shape, dtype) == Array(shape, dtype, [idx \in Indices(shape) |-> 0])


\* ------------------------------------------------------- NumPy operations
\* np.pad(a, pw, mode='constant'): pw[i] = <<before, after>> zeros on axis i
NpPad(a, pw) ==
  LET shape == [i \in 1..Ndim(a) |-> a.shape[i] + pw[i][1] + pw[i][2]]
  IN Array(shape, a.dtype,
           [idx \in Indices(shape) |->
              LET src == [i \in 1..Ndim(a) |-> idx[i] - pw[i][1]]
              IN IF src \in Indices(a.shape) THEN a.data[src] ELSE 0])

\* np.zeros_like(a, dtype=dtype)
ZerosLike(a, dtype) == ZeroArray(a.shape, dtype)

\* length of the slice start:stop of an axis of length n (stop is clamped)
SliceLen(start, stop, n) == Max(0, Min(stop, n) - Min(start, n))

\* a[y:y + k0, x:x + k1] of a rank-2 array
SliceGray(a, yy, k0, xx, k1) ==
  LET shape == <<SliceLen(yy, yy + k0, a.shape[1]), SliceLen(xx, xx + k1, a.shape[2])>>
  IN Array(shape, a.dtype,
           [idx \in Indices(shape) |-> a.data[<<yy + idx[1], xx + idx[2]>>]])

\* a[y:y + k0, x:x + k1, c] of a rank-3 array
SliceRGB(a, yy, k0, xx, k1, c) ==
  LET shape == <<SliceLen(yy, yy + k0, a.shape[1]), SliceLen(xx, xx + k1, a.shape[2])>>
  IN Array(shape, a.dtype,
           [idx \in Indices(shape) |-> a.data[<<yy + idx[1], xx + idx[2], c>>]])

\* element type of an arithmetic result (array with array)
ResultType(d1, d2) ==
  IF IsFloat(d1) \/ IsFloat(d2) THEN "float64"
  ELSE IF d1 = "uint8" /\ d2 = "uint8" THEN "uint8"
  ELSE "int64"

\* a value stored in an element of the given type
Wrap(dtype, v) == IF dtype = "uint8" THEN v % 256 ELSE v

\* broadcasting of two rank-2 shapes
Broadcastable(s1, s2) ==
  \A i \in 1..2 : s1[i] = s2[i] \/ s1[i] = 1 \/ s2[i] = 1
BroadcastShape(s1, s2) ==
  [i \in 1..2 |-> IF s1[i] = 1 THEN s2[i] ELSE s1[i]]

\* a * b, elementwise, in the result type of the two element types
Multiply(a, b) ==
  LET shape == BroadcastShape(a.shape, b.shape)
      rt == ResultType(a.dtype, b.dtype)
      At(arr, idx) == arr.data[[i \in 1..2 |-> IF arr.shape[i] = 1 THEN 0 ELSE idx[i]]]
  IN Array(shape, rt,
           [idx \in Indices(shape) |->
              IF IsFloat(rt)
              THEN (Fix(a.dtype, At(a, idx)) * Fix(b.dtype, At(b, idx))) \div Den
              ELSE Wrap(rt, At(a, idx) * At(b, idx))])

\* np.sum(a): a scalar; small unsigned integers accumulate in uint64
SumType(dtype) == IF IsFloat(dtype) THEN "float64"
                  ELSE IF dtype = "uint8" THEN "uint64" ELSE "int64"
NpSum(a) == [dtype |-> SumType(a.dtype), val |-> SumOver(a.data, Indices(a.shape))]

\* number of bits of n > 0
RECURSIVE BitLen(_)
BitLen(n) == IF n = 0 THEN 0 ELSE 1 + BitLen(n \div 2)

\* nearest float32 (24-bit significand, ties to even) of the numerator v
Float32(v) ==
  LET m == Abs(v)
      bits == BitLen(m)
  IN IF bits <= 24 THEN v
     ELSE LET step == Pow2(bits - 24)
              q == m \div step
              r == m % step
              up == (2 * r > step) \/ (2 * r = step /\ q % 2 = 1)
              rounded == (IF up THEN q + 1 ELSE q) * step
          IN IF v < 0 THEN 0 - rounded ELSE rounded

\* float32 element assigned from the scalar s
StoreFloat32(s) == Float32(Fix(s.dtype, s.val))

\* np.clip(a, lo, hi) of a floating-point array, lo and hi integers
NpClip(a, lo, hi) ==
  Array(a.shape, a.dtype,
        [idx \in Indices(a.shape) |-> Min(Max(a.data[idx], lo * Den), hi * Den)])

\* float -> uint8 element conversion: truncation toward zero, modulo 2^8
CastUint8(v) ==
  LET t == IF v < 0 THEN 0 - ((0 - v) \div Den) ELSE v \div Den IN t % 256

\* a.astype(np.uint8) of a floating-point array
AstypeUint8(a) ==
  Array(a.shape, "uint8", [idx \in Indices(a.shape) |-> CastUint8(a.data[idx])])

\* -------------------------------------------------- pieces of apply_filter
\* variant: empty images are rejected as well
ImageOKNonEmpty(img) == Ndim(img) \in {2, 3} /\ \A i \in 1..Ndim(img) : img.shape[i] >= 1
\* line 23: assert image.ndim in [2, 3]
ImageOK(img) == Ndim(img) \in {2, 3}
\* variant: the squareness test is missing
KernelOKRankOnly(ker) == Ndim(ker) = 2
\* line 24: assert kernel.ndim == 2 and kernel.shape[0] == kernel.shape[1]
KernelOK(ker) == Ndim(ker) = 2 /\ ker.shape[1] = ker.shape[2]

\* variant: the half size rounded up
PaddingCeil(ker) == (ker.shape[1] + 1) \div 2
\* variant: the half size of the kernel without its centre, (k - 1) // 2
PaddingHalfOfRest(ker) == (ker.shape[1] - 1) \div 2
\* line 26: padding = kernel.shape[0] // 2
Padding(ker) == ker.shape[1] \div 2

\* line 30: np.pad(image, padding): every axis padded
PadWidthGray(p) == <<<<p, p>>, <<p, p>>>>
\* variant: the channel axis is padded like the spatial axes
PadWidthRGBAllAxes(p) == <<<<p, p>>, <<p, p>>, <<p, p>>>>
\* line 34: [(padding, padding), (padding, padding), (0, 0)]
PadWidthRGB(p) == <<<<p, p>>, <<p, p>>, <<0, 0>>>>

\* line 41: the window of the padded grayscale image at (y, x)
PatchGray(padded, ker, yy, xx) == SliceGray(padded, yy, ker.shape[1], xx, ker.shape[2])
\* line 45: the window of channel c of the padded image at (y, x)
PatchRGB(padded, ker, yy, xx, c) == SliceRGB(padded, yy, ker.shape[1], xx, ker.shape[2], c)

\* lines 42, 46: np.sum(patch * kernel)
PatchSum(patch, ker) == NpSum(Multiply(patch, ker))

\* variant: no clipping before the conversion
ClipArrayOmitted(a) == a
\* line 49: np.clip(filtered_image, 0, 255)
ClipArray(a) == NpClip(a, 0, 255)
\* lines 49-50: clip to [0, 255], then convert to uint8
Quantize(a) == AstypeUint8(ClipArray(a))

\* the grayscale path of apply_filter as a function of its arguments
ApplyFilterGray(img, ker) ==
  LET padded == NpPad(img, PadWidthGray(Padding(ker)))
      acc == Array(img.shape, "float32",
                   [idx \in Indices(img.shape) |->
                      StoreFloat32(PatchSum(PatchGray(padded, ker, idx[1], idx[2]), ker))])
  IN Quantize(acc)

\* ------------------------------------------------------------------ state
VARIABLES
  heap,            \* the arrays allocated so far; a reference is an index
  image,           \* argument: reference of the image
  kernel,          \* argument: reference of the kernel
  padding,         \* local of apply_filter
  height,          \* local
  width,           \* local
  channels,        \* local (rank-3 images only)
  padded_image,    \* local: reference, NULL before line 30/34
  filtered_image,  \* local: reference, NULL before line 31/35
  y,               \* loop variable of line 38
  x,               \* loop variable of line 39
  result,          \* reference returned to the caller, NULL until the return
  error,           \* exception that left the call, "none" if there is none
  pc               \* statement the call is at

vars == <<heap, image, kernel, padding, height, width, channels, padded_image,
          filtered_image, y, x, result, error, pc>>

locals == <<padding, height, width, channels, padded_image, filtered_image, y, x>>

\* ----------------------------------------------------------------- inputs
GrayShapes == {<<h, w>> : h \in 0..MaxDim, w \in 0..MaxDim}
RGBShapes == {<<h, w, c>> : h \in 0..MaxDim, w \in 0..MaxDim, c \in 0..MaxCh}

\* the image of the given shape whose samples all differ: 9 + 64 r + 21 c + 7 ch
RampImage(shape) ==
  Array(shape, "uint8",
        [idx \in Indices(shape) |->
           (9 + 64 * idx[1] + 21 * idx[2] + (IF Len(idx) = 3 THEN 7 * idx[3] ELSE 0)) % 256])
\* the images of the given shape with a single non-zero sample
OneHotImages(shape) ==
  {Array(shape, "uint8", [idx \in Indices(shape) |-> IF idx = pos THEN v ELSE 0]) :
     pos \in Indices(shape), v \in Samples}
\* images of rank 2 and 3 with uint8 samples: all zero, all different, one-hot
ValidImages ==
  UNION {{ZeroArray(shape, "uint8"), RampImage(shape)} \cup OneHotImages(shape) :
         shape \in GrayShapes \cup RGBShapes}
\* images of rank 0, 1 and 4
BadRankImages ==
  {ZeroArray(<<>>, "uint8"), ZeroArray(<<MaxDim>>, "uint8"), ZeroArray(<<1, 1, 1, 1>>, "uint8")}

\* k x k kernels with one weight at the centre (k // 2, k // 2) and another
\* weight everywhere else: identity, box, sharpening and zero kernels
CentreKernels(k, dtype, W) ==
  {Array(<<k, k>>, dtype,
         [idx \in Indices(<<k, k>>) |-> IF idx = <<k \div 2, k \div 2>> THEN a ELSE b]) :
     a \in W \cup {0}, b \in W \cup {0}}
\* k x k kernels with a single non-zero weight a, at any position: shifts
OneHotKernels(k, dtype, a) ==
  {Array(<<k, k>>, dtype, [idx \in Indices(<<k, k>>) |-> IF idx = pos THEN a ELSE 0]) :
     pos \in Indices(<<k, k>>)}
\* square rank-2 kernels, float64 or uint8 weights
SquareKernels ==
  UNION {CentreKernels(k, "float64", FloatWeights) \cup OneHotKernels(k, "float64", Den)
         \cup CentreKernels(k, "uint8", IntWeights) :
         k \in 0..MaxK}
\* kernels that are not rank 2 or not square
BadKernels ==
  {ZeroArray(shape, "float64") :
     shape \in {<<k0, k1>> : k0 \in 0..MaxK, k1 \in 0..MaxK} \ {<<k, k>> : k \in 0..MaxK}}
  \cup {ZeroArray(<<MaxK>>, "float64"), ZeroArray(<<1, 1, 1>>, "float64")}

Init ==
  /\ \E img \in ValidImages \cup BadRankImages, ker \in SquareKernels \cup BadKernels :
       heap = <<img, ker>>
  /\ image = 1
  /\ kernel = 2
  /\ padding = 0
  /\ height = 0
  /\ width = 0
  /\ channels = 0
  /\ padded_image = NULL
  /\ filtered_image = NULL
  /\ y = 0
  /\ x = 0
  /\ result = NULL
  /\ error = "none"
  /\ pc = "assert_image"

\* ---------------------------------------------------------------- actions
\* reference of a newly allocated array, and the heap holding it
NewRef(h) == Len(h) + 1
Alloc(h, a) == Append(h, a)

\* line 23
AssertImage ==
  /\ pc = "assert_image"
  /\ IF ImageOK(heap[image])
     THEN pc' = "assert_kernel" /\ error' = error
     ELSE pc' = "raised" /\ error' = "AssertionError"
  /\ UNCHANGED <<heap, image, kernel, locals, result>>

\* line 24
AssertKernel ==
  /\ pc = "assert_kernel"
  /\ IF KernelOK(heap[kernel])
     THEN pc' = "padding" /\ error' = error
     ELSE pc' = "raised" /\ error' = "AssertionError"
  /\ UNCHANGED <<heap, image, kernel, locals, result>>

\* line 26
ComputePadding ==
  /\ pc = "padding"
  /\ padding' = Padding(heap[kernel])
  /\ pc' = "pad"
  /\ UNCHANGED <<heap, image, kernel, height, width, channels, padded_image,
                 filtered_image, y, x, result, error>>

\* lines 29-30 (grayscale) and 33-34 (RGB): unpack the shape, pad the image
PadImage ==
  /\ pc = "pad"
  /\ LET img == heap[image] IN
       /\ height' = img.shape[1]
       /\ width' = img.shape[2]
       /\ channels' = IF Ndim(img) = 2 THEN channels ELSE img.shape[3]
       /\ padded_image' = NewRef(heap)
       /\ heap' = Alloc(heap, NpPad(img, IF Ndim(img) = 2 THEN PadWidthGray(padding)
                                                         ELSE PadWidthRGB(padding)))
  /\ pc' = "alloc"
  /\ UNCHANGED <<image, kernel, padding, filtered_image, y, x, result, error>>

\* variant: the buffer has the shape of the padded image (the last allocation)
OutputBufferLikePadded(h, img) ==
  [ref |-> NewRef(h), heap |-> Alloc(h, ZerosLike(h[Len(h)], "float32"))]
\* variant: the image itself is the output buffer (filtering in place)
OutputBufferInPlace(h, img) == [ref |-> img, heap |-> h]
\* the array line 31/35 binds filtered_image to
OutputBuffer(h, img) == [ref |-> NewRef(h), heap |-> Alloc(h, ZerosLike(h[img], "float32"))]

\* lines 31 and 35
AllocOutput ==
  /\ pc = "alloc"
  /\ LET out == OutputBuffer(heap, image) IN
       /\ filtered_image' = out.ref
       /\ heap' = out.heap
  /\ y' = 0
  /\ x' = 0
  /\ pc' = "convolve"
  /\ UNCHANGED <<image, kernel, padding, height, width, channels, padded_image,
                 result, error>>

\* the two loop variables after the iteration (y, x)
NextY == IF x + 1 < width THEN y ELSE y + 1
NextX == IF x + 1 < width THEN x + 1 ELSE 0

\* lines 38-42: one iteration (y, x) on a grayscale image
ConvolveGray ==
  /\ pc = "convolve"
  /\ Ndim(heap[image]) = 2
  /\ y < height /\ x < width
  /\ LET ker == heap[kernel]
         patch == PatchGray(heap[padded_image], ker, y, x)
     IN IF Broadcastable(patch.shape, ker.shape)
        THEN /\ heap' = [heap EXCEPT ![filtered_image].data[<<y, x>>] =
                                        StoreFloat32(PatchSum(patch, ker))]
             /\ y' = NextY
             /\ x' = NextX
             /\ pc' = pc
             /\ error' = error
        ELSE /\ pc' = "raised"
             /\ error' = "ValueError"
             /\ UNCHANGED <<heap, y, x>>
  /\ UNCHANGED <<image, kernel, padding, height, width, channels, padded_image,
                 filtered_image, result>>

\* lines 38-39, 43-46: one iteration (y, x) on a multi-channel image
ConvolveRGB ==
  /\ pc = "convolve"
  /\ Ndim(heap[image]) = 3
  /\ y < height /\ x < width
  /\ LET ker == heap[kernel]
         patch(c) == PatchRGB(heap[padded_image], ker, y, x, c)
     IN IF \A c \in 0..(channels - 1) : Broadcastable(patch(c).shape, ker.shape)
        THEN /\ heap' = [heap EXCEPT ![filtered_image].data =
                           [idx \in DOMAIN @ |->
                              IF idx[1] = y /\ idx[2] = x
                              THEN StoreFloat32(PatchSum(patch(idx[3]), ker))
                              ELSE @[idx]]]
             /\ y' = NextY
             /\ x' = NextX
             /\ pc' = pc
             /\ error' = error
        ELSE /\ pc' = "raised"
             /\ error' = "ValueError"
             /\ UNCHANGED <<heap, y, x>>
  /\ UNCHANGED <<image, kernel, padding, height, width, channels, padded_image,
                 filtered_image, result>>

\* lines 38-39: the loops are exhausted
LoopDone ==
  /\ pc = "convolve"
  /\ ~(y < height /\ x < width)
  /\ pc' = "clip"
  /\ UNCHANGED <<heap, image, kernel, locals, result, error>>

\* line 49: filtered_image = np.clip(filtered_image, 0, 255)
Clip ==
  /\ pc = "clip"
  /\ filtered_image' = NewRef(heap)
  /\ heap' = Alloc(heap, ClipArray(heap[filtered_image]))
  /\ pc' = "astype"
  /\ UNCHANGED <<image, kernel, padding, height, width, channels, padded_image,
                 y, x, result, error>>

\* line 50: filtered_image = filtered_image.astype(np.uint8)
Astype ==
  /\ pc = "astype"
  /\ filtered_image' = NewRef(heap)
  /\ heap' = Alloc(heap, AstypeUint8(heap[filtered_image]))
  /\ pc' = "return"
  /\ UNCHANGED <<image, kernel, padding, height, width, channels, padded_image,
                 y, x, result, error>>

\* line 52
Return ==
  /\ pc = "return"
  /\ result' = filtered_image
  /\ pc' = "done"
  /\ UNCHANGED <<heap, image, kernel, locals, error>>

Next ==
  \/ AssertImage
  \/ AssertKernel
  \/ ComputePadding
  \/ PadImage
  \/ AllocOutput
  \/ ConvolveGray
  \/ ConvolveRGB
  \/ LoopDone
  \/ Clip
  \/ Astype
  \/ Return

Spec == Init /\ [][Next]_vars

TypeOK ==
  /\ pc \in {"assert_image", "assert_kernel", "padding", "pad", "alloc", "convolve",
             "clip", "astype", "return", "done", "raised"}
  /\ error \in {"none", "AssertionError", "ValueError"}
  /\ result \in 0..Len(heap)

\* ------------------------------------------------- vocabulary of the claims
Img == heap[image]
Ker == heap[kernel]
Out == heap[result]
\* the float32 buffer of line 31/35, allocated right after the padded image
Acc == heap[padded_image + 1]

\* the inputs the contract accepts: image of rank 2 or 3, square rank-2 kernel
RankOK(img) == Len(img.shape) \in {2, 3}
SquareKernel(ker) == Len(ker.shape) = 2 /\ ker.shape[1] = ker.shape[2]
ValidInput == RankOK(Img) /\ SquareKernel(Ker)
KernelSize == Ker.shape[1]
\* height, width or channel count of 0
Degenerate(img) == \E i \in 1..Ndim(img) : img.shape[i] = 0

\* sample (r, c) of channel ch of the image surrounded by zeros
ZeroExtended(img, r, c, ch) ==
  LET idx == IF Ndim(img) = 2 THEN <<r, c>> ELSE <<r, c, ch>>
  IN IF idx \in Indices(img.shape) THEN img.data[idx] ELSE 0

\* channel of an index tuple of the image (0 for a grayscale image)
ChannelOf(idx) == IF Len(idx) = 2 THEN 0 ELSE idx[3]

\* S = sum of kernel[i][j] * P[y + i][x + j], P the zero-extended image shifted
\* by k // 2; an exact rational, as a numerator over Den
WeightedSum(img, ker, yy, xx, ch) ==
  LET k == ker.shape[1]
      I == Indices(<<k, k>>)
      term == [ij \in I |-> Fix(ker.dtype, ker.data[ij])
                            * ZeroExtended(img, yy + ij[1] - k \div 2, xx + ij[2] - k \div 2, ch)]
  IN SumOver(term, I)

\* clip(S, 0, 255) truncated to an integer
ClipTrunc(S) == Min(Max(S, 0), 255 * Den) \div Den

\* ----------------------------------------------------------------- claims
\* C1: for a rank-2 image (height, width >= 1) and a k x k kernel (k >= 1), the
\* returned sample at every (y, x) is clip(S, 0, 255) truncated to an integer,
\* S the exact sum of kernel[i][j] * P[y + i][x + j] over the zero-padded image.
C1_OutputIsClippedExactSum ==
  (pc = "done" /\ Ndim(Img) = 2 /\ ~Degenerate(Img) /\ KernelSize >= 1)
    => \A idx \in Indices(Img.shape) :
         Out.data[idx] = ClipTrunc(WeightedSum(Img, Ker, idx[1], idx[2], 0))

\* Lemma: with floating-point kernel weights the returned sample of a rank-2
\* image is the clipped, truncated exact sum.
FloatKernelOutputIsClippedExactSum ==
  (pc = "done" /\ Ndim(Img) = 2 /\ ~Degenerate(Img) /\ KernelSize >= 1 /\ IsFloat(Ker.dtype))
    => \A idx \in Indices(Img.shape) :
         Out.data[idx] = ClipTrunc(WeightedSum(Img, Ker, idx[1], idx[2], 0))

\* C9: whatever the element type of the kernel, the value that reaches the clip
\* step is the exact sum of the products sample * weight, never a value reduced
\* modulo 2^8.
C9_AccumulatorIsExactSum ==
  (pc = "clip" /\ KernelSize >= 1)
    => \A idx \in Indices(Img.shape) :
         Acc.data[idx] = WeightedSum(Img, Ker, idx[1], idx[2], ChannelOf(idx))

\* Lemma: with floating-point kernel weights the accumulated value is the
\* exact sum.
FloatKernelAccumulatorIsExactSum ==
  (pc = "clip" /\ KernelSize >= 1 /\ IsFloat(Ker.dtype))
    => \A idx \in Indices(Img.shape) :
         Acc.data[idx] = WeightedSum(Img, Ker, idx[1], idx[2], ChannelOf(idx))

C3_WitnessNegative ==
  /\ pc = "done"
  /\ \E idx \in Indices(Out.shape) : Acc.data[idx] < 0 /\ Out.data[idx] = 0

\* C2: the returned array has exactly the shape of the input image (height,
\* width and, for a rank-3 image, channel count), for odd and even kernel sizes.
C2_ShapePreserved ==
  (pc = "done") => Out.shape = Img.shape

\* C2 witness: a multi-channel image filtered with an even-sized kernel.
C2_Witness ==
  /\ pc = "done"
  /\ Img.shape = <<2, 1, 2>>
  /\ KernelSize = 2
  /\ heap[padded_image].shape # Img.shape

\* C4: an image of rank other than 2 or 3, or a kernel that is not rank 2 or not
\* square, ends the call in the validation error; the error comes before the
\* padding, before the output buffer exists and before any sample is computed,
\* and nothing is returned.
C4_FailFast ==
  ~ValidInput =>
    /\ pc \in {"assert_image", "assert_kernel", "raised"}
    /\ pc = "raised" => error = "AssertionError"
    /\ pc # "raised" => ENABLED (AssertImage \/ AssertKernel)
    /\ padded_image = NULL
    /\ filtered_image = NULL
    /\ result = NULL
    /\ Len(heap) = 2

\* C4 witness: a valid image with a kernel of shape (3, 2) has been rejected.
C4_Witness ==
  /\ pc = "raised"
  /\ RankOK(Img)
  /\ Ker.shape = <<3, 2>>

\* C4 witness: a rank-4 image has been rejected.
C4_WitnessRank4 ==
  /\ pc = "raised"
  /\ Ndim(Img) = 4

\* C5 as stated: a degenerate image (a height, width or channel count of 0) is
\* rejected before any computation and nothing is returned.
C5_DegenerateRejected ==
  (RankOK(Img) /\ Degenerate(Img)) =>
    /\ pc \in {"assert_image", "assert_kernel", "raised"}
    /\ padded_image = NULL
    /\ result = NULL

\* C5 amended: a degenerate image of rank 2 or 3 with a square rank-2 kernel
\* raises no error; the call returns an empty uint8 array of the image's shape
\* and no sample is written to the output buffer.
C5_DegenerateReturnsEmpty ==
  (ValidInput /\ Degenerate(Img)) =>
    /\ error = "none"
    /\ pc # "raised"
    /\ filtered_image # NULL => Indices(heap[filtered_image].shape) = {}
    /\ pc = "done" => /\ Out.shape = Img.shape
                      /\ Out.dtype = "uint8"
                      /\ Out.data = <<>>

\* C5 witness: an image with two rows, two columns and no channel has been
\* filtered; the loop over (y, x) ran with nothing to compute.
C5_Witness ==
  /\ pc = "done"
  /\ Img.shape = <<2, 2, 0>>
  /\ KernelSize = 3
  /\ y = height

\* an odd-sized kernel with weight 1 at the centre and 0 elsewhere
IsIdentityKernel(ker) ==
  /\ SquareKernel(ker)
  /\ ker.shape[1] % 2 = 1
  /\ \A ij \in Indices(ker.shape) :
       Fix(ker.dtype, ker.data[ij])
         = IF ij = <<ker.shape[1] \div 2, ker.shape[1] \div 2>> THEN Den ELSE 0

\* C6: with an identity kernel (odd size, centre weight 1, the others 0) the
\* output equals the input image sample for sample, border pixels included.
C6_IdentityKernel ==
  (pc = "done" /\ IsIdentityKernel(Ker)) =>
    /\ Out.shape = Img.shape
    /\ Out.data = Img.data

\* C6 witness: a 2 x 2 image with two non-zero samples has been filtered with
\* the 3 x 3 floating-point identity kernel.
C6_Witness ==
  /\ pc = "done"
  /\ IsIdentityKernel(Ker)
  /\ KernelSize = 3
  /\ IsFloat(Ker.dtype)
  /\ Img.shape = <<2, 2>>
  /\ Img.data[<<0, 0>>] # 0
  /\ Img.data[<<1, 1>>] # 0

\* channel c of a rank-3 array, as a rank-2 array
Channel(a, c) ==
  Array(<<a.shape[1], a.shape[2]>>, a.dtype,
        [idx \in Indices(<<a.shape[1], a.shape[2]>>) |-> a.data[<<idx[1], idx[2], c>>]])

\* C7: the output of a multi-channel image equals, channel by channel, the
\* output of apply_filter on that channel alone as a rank-2 image, and the
\* padded image has no padding along the channel axis.
C7_ChannelIndependence ==
  /\ (padded_image # NULL /\ Ndim(Img) = 3) => heap[padded_image].shape[3] = Img.shape[3]
  /\ (pc = "done" /\ Ndim(Img) = 3) =>
       \A c \in 0..(Img.shape[3] - 1) : Channel(Out, c) = ApplyFilterGray(Channel(Img, c), Ker)

\* C7 witness: a two-channel image whose channels differ has been filtered with
\* a kernel larger than 1 x 1, and the two output channels differ.
C7_Witness ==
  /\ pc = "done"
  /\ Ndim(Img) = 3
  /\ Img.shape[3] = 2
  /\ KernelSize >= 2
  /\ Channel(Img, 0) # Channel(Img, 1)
  /\ Channel(Out, 0) # Channel(Out, 1)

\* C8: no step of a call, successful or failing, changes a sample of the input
\* image or a weight of the kernel, and the returned array is a buffer allocated
\* by the call, distinct from the image and from the kernel.
C8_InputsUntouched ==
  [][/\ image' = image
     /\ kernel' = kernel
     /\ heap'[image] = heap[image]
     /\ heap'[kernel] = heap[kernel]
     /\ result' # NULL => result' \notin {image, kernel}]_vars

\* C8 witness: a call has returned an output that differs from its input image.
C8_Witness ==
  /\ pc = "done"
  /\ result # NULL
  /\ Out.data # Img.data

\* C10: at every output coordinate the k x k window lies inside the padded
\* buffer and covers original rows y - k // 2 .. y - k // 2 + k - 1 (columns
\* likewise), zeros outside the image: for even k one more row and column before
\* the pixel than after it, for odd k the same number on both sides.
C10_WindowCoverage ==
  (pc = "convolve" /\ y < height /\ x < width) =>
    LET k == KernelSize
        P == heap[padded_image]
        before == padding
        after == k - 1 - padding
    IN /\ padding = k \div 2
       /\ (k % 2 = 0 /\ k >= 2) => (before = after + 1 /\ y + after = y + k \div 2 - 1)
       /\ k % 2 = 1 => (before = after /\ y + after = y + k \div 2)
       /\ \A i \in 0..(k - 1), j \in 0..(k - 1) :
            /\ y + i < P.shape[1]
            /\ x + j < P.shape[2]
            /\ Ndim(Img) = 2 =>
                 P.data[<<y + i, x + j>>] = ZeroExtended(Img, y - before + i, x - before + j, 0)
            /\ Ndim(Img) = 3 =>
                 \A ch \in 0..(channels - 1) :
                   P.data[<<y + i, x + j, ch>>]
                     = ZeroExtended(Img, y - before + i, x - before + j, ch)

\* C10 witness: the loop is at the last pixel of a 2 x 2 image with a 2 x 2
\* kernel: the window's last row and column are the pixel's own.
C10_Witness ==
  /\ pc = "convolve"
  /\ KernelSize = 2
  /\ Img.shape = <<2, 2>>
  /\ y = 1 /\ x = 1
  /\ Img.data[<<1, 1>>] # 0

====
